---- MODULE Spec2Model ----
(***************************************************************************)
(* Model of src/src/tox_setuptools_version/hooks.py: the two tox hooks     *)
(* tox_configure and tox_testenv_install_deps, the module-level dictionary *)
(* PER_ENV_SETUPTOOLS_VERSIONS and the pure function                       *)
(* get_setuptools_package_version.                                         *)
(*                                                                         *)
(* A Python str is a sequence of one-character strings.  An optional value *)
(* (a str or None) is a sequence of length 0 (None) or 1 (the str).  A     *)
(* Python dict is a function whose DOMAIN is its key set.                  *)
(***************************************************************************)
EXTENDS Integers, Sequences, FiniteSets, TLC

\* ------------------------------------------------------------------------
\* Bounds of the model
\* ------------------------------------------------------------------------
NumEnvs == 2
MaxPad == 1
MaxTail == 2

\* ------------------------------------------------------------------------
\* Python values
\* ------------------------------------------------------------------------
None == << >>

Some(s) == << s >>

\* Python truthiness of "a str or None": None and "" are falsy.
Truthy(o) == o # None /\ o[1] # << >>

EmptyDict == << >>

\* dict.get(key, default) where the dict holds str values and default is
\* a str or None.
DictGet(d, key, default) == IF key \in DOMAIN d THEN Some(d[key]) ELSE default

\* d[key] = value
DictSet(d, key, value) ==
    [k \in (DOMAIN d) \cup {key} |-> IF k = key THEN value ELSE d[k]]

\* ------------------------------------------------------------------------
\* str.lower(), str.strip(), str.startswith()
\* ------------------------------------------------------------------------
Uppers ==
    << "A", "B", "C", "D", "E", "F", "G", "H", "I", "J", "K", "L", "M",
       "N", "O", "P", "Q", "R", "S", "T", "U", "V", "W", "X", "Y", "Z" >>

Lowers ==
    << "a", "b", "c", "d", "e", "f", "g", "h", "i", "j", "k", "l", "m",
       "n", "o", "p", "q", "r", "s", "t", "u", "v", "w", "x", "y", "z" >>

LowerChar(c) ==
    IF \E i \in DOMAIN Uppers : Uppers[i] = c
      THEN Lowers[CHOOSE i \in DOMAIN Uppers : Uppers[i] = c]
      ELSE c

lower(s) == [i \in 1..Len(s) |-> LowerChar(s[i])]

Whitespace == {" ", "\t", "\n", "\r", "\f"}

RECURSIVE lstrip(_)
lstrip(s) ==
    IF s # << >> /\ Head(s) \in Whitespace THEN lstrip(Tail(s)) ELSE s

RECURSIVE rstrip(_)
rstrip(s) ==
    IF s # << >> /\ s[Len(s)] \in Whitespace
      THEN rstrip(SubSeq(s, 1, Len(s) - 1))
      ELSE s

strip(s) == rstrip(lstrip(s))

startswith(s, prefix) ==
    Len(s) >= Len(prefix) /\ SubSeq(s, 1, Len(prefix)) = prefix

SETUPTOOLS == << "s", "e", "t", "u", "p", "t", "o", "o", "l", "s" >>

\* ------------------------------------------------------------------------
\* get_setuptools_package_version
\* ------------------------------------------------------------------------
\* Variant: the argument is stripped but not lowercased.
get_setuptools_package_version_nolower(setuptools_version) ==
    LET v == strip(setuptools_version)
    IN  IF startswith(v, SETUPTOOLS)
          THEN v
          ELSE SETUPTOOLS \o << "=", "=" >> \o v

\* Variant: the prefix is added without looking at the argument.
get_setuptools_package_version_prefix(setuptools_version) ==
    SETUPTOOLS \o << "=", "=" >> \o strip(lower(setuptools_version))

get_setuptools_package_version(setuptools_version) ==
    LET v == strip(lower(setuptools_version))
    IN  IF startswith(v, SETUPTOOLS)
          THEN v
          ELSE SETUPTOOLS \o << "=", "=" >> \o v

\* ------------------------------------------------------------------------
\* State
\* ------------------------------------------------------------------------
VARIABLES
    envconfigs,                   \* config.envconfigs: env name -> what
                                  \* envconfig._reader.getstring returns
    PER_ENV_SETUPTOOLS_VERSIONS,  \* the module-level dict
    pc,                           \* "start" | "configured" | "normalize"
    call,                         \* None, or the arguments of the last
                                  \* tox_testenv_install_deps invocation
    fromEnv,                      \* its local tox_setuptools_version_from_env
    resolved,                     \* its local setuptools_version
    events,                       \* what it printed and asked to install
    raised,                       \* whether venv._install raised out of it
    nArg,                         \* argument of get_setuptools_package_version
    nOut,                         \* None, or its result
    nOut2                         \* None, or the result of re-applying it

vars ==
    << envconfigs, PER_ENV_SETUPTOOLS_VERSIONS, pc, call, fromEnv, resolved,
       events, raised, nArg, nOut, nOut2 >>

hookVars ==
    << envconfigs, PER_ENV_SETUPTOOLS_VERSIONS, call, fromEnv, resolved,
       events, raised >>

\* ------------------------------------------------------------------------
\* Inputs
\* ------------------------------------------------------------------------
SeqsUpTo(S, n) == UNION {[1..k -> S] : k \in 0..n}

EnvNames == << "py36", "py37", "py38", "py39", "py310" >>

Envs == {EnvNames[i] : i \in 1..NumEnvs}

Orders ==
    {o \in [1..NumEnvs -> Envs] :
        \A i, j \in 1..NumEnvs : i # j => o[i] # o[j]}

\* setuptools_version values of tox.ini: "", "19.0", "SetupTools>=18"
ConfigStrings ==
    { << >>,
      << "1", "9", ".", "0" >>,
      << "S", "e", "t", "u", "p", "T", "o", "o", "l", "s", ">", "=", "1", "8" >> }

ConfigValues == {None} \cup {Some(s) : s \in ConfigStrings}

\* TOX_SETUPTOOLS_VERSION values: "", "20.0", "setuptools==21.0"
EnvStrings ==
    { << >>,
      << "2", "0", ".", "0" >>,
      << "s", "e", "t", "u", "p", "t", "o", "o", "l", "s", "=", "=", "2", "1", ".", "0" >> }

\* TOX_SETUPTOOLS_VERSION values the process environment is drawn from:
\* "", "setuptools<23"
ProcStrings ==
    { << >>,
      << "s", "e", "t", "u", "p", "t", "o", "o", "l", "s", "<", "2", "3" >> }

TOX_SETUPTOOLS_VERSION_VAR == "TOX_SETUPTOOLS_VERSION"

BaseEnviron == [k \in {"PATH"} |-> << "/", "b", "i", "n" >>]

\* A mapping of environment variables, with or without the variable.
Environs(strings) ==
    {BaseEnviron} \cup
    {DictSet(BaseEnviron, TOX_SETUPTOOLS_VERSION_VAR, s) : s \in strings}

\* The venv object: its name and what venv._get_os_environ() returns.
Venvs == [name : Envs, os_environ : Environs(EnvStrings)]

\* The action object of tox < 3.8 (attribute venvname) and of tox >= 3.8
\* (attribute name) for the venv of the given name.
ActionsOf(e) ==
    {[venvname |-> e, id |-> "action"], [name |-> e, id |-> "action"]}

\* Arguments of get_setuptools_package_version: optional whitespace, a
\* head (a prefix of "setuptools", or the word in upper or mixed case), a
\* short tail, optional whitespace.
PadChars == {" ", "\t"}

TailChars == {"9", "=", " ", "A"}

HeadWords ==
    { << "S", "E", "T", "U", "P", "T", "O", "O", "L", "S" >>,
      << "S", "e", "t", "u", "p", "T", "o", "o", "l", "s" >> }

Heads == HeadWords \cup {SubSeq(SETUPTOOLS, 1, k) : k \in 0..Len(SETUPTOOLS)}

RawInputs ==
    {p \o h \o t \o q :
        p \in SeqsUpTo(PadChars, MaxPad), h \in Heads,
        t \in SeqsUpTo(TailChars, MaxTail), q \in SeqsUpTo(PadChars, MaxPad)}

\* ------------------------------------------------------------------------
\* tox_configure
\* ------------------------------------------------------------------------
\* One iteration of the loop: value is what getstring returned for env.
\* Variant: "is not None" instead of truthiness.
ConfigureEntry_notnone(registry, env, value) ==
    IF value # None THEN DictSet(registry, env, value[1]) ELSE registry

\* Variant: an environment without the option resets the dict.
ConfigureEntry_reset(registry, env, value) ==
    IF Truthy(value) THEN DictSet(registry, env, value[1]) ELSE EmptyDict

ConfigureEntry(registry, env, value) ==
    IF Truthy(value) THEN DictSet(registry, env, value[1]) ELSE registry

RECURSIVE ConfigureLoop(_, _, _)
ConfigureLoop(registry, order, cfg) ==
    IF order = << >>
      THEN registry
      ELSE ConfigureLoop(ConfigureEntry(registry, Head(order), cfg[Head(order)]),
                         Tail(order), cfg)

tox_configure(order) ==
    /\ pc = "start"
    /\ PER_ENV_SETUPTOOLS_VERSIONS' =
           ConfigureLoop(PER_ENV_SETUPTOOLS_VERSIONS, order, envconfigs)
    /\ pc' = "configured"
    /\ UNCHANGED << envconfigs, call, fromEnv, resolved, events, raised,
                    nArg, nOut, nOut2 >>

\* ------------------------------------------------------------------------
\* tox_testenv_install_deps
\* ------------------------------------------------------------------------
getenv(os_environ, name) == DictGet(os_environ, name, None)

\* env.get(TOX_SETUPTOOLS_VERSION_VAR, getenv(TOX_SETUPTOOLS_VERSION_VAR))
\* Variant: the process environment is looked up first.
VersionFromEnv_process(env, os_environ) ==
    DictGet(os_environ, TOX_SETUPTOOLS_VERSION_VAR,
            DictGet(env, TOX_SETUPTOOLS_VERSION_VAR, None))

VersionFromEnv(env, os_environ) ==
    DictGet(env, TOX_SETUPTOOLS_VERSION_VAR,
            getenv(os_environ, TOX_SETUPTOOLS_VERSION_VAR))

\* try: action.venvname / except AttributeError: action.name
ActionVenvName(action) ==
    IF "venvname" \in DOMAIN action THEN action.venvname ELSE action.name

\* PER_ENV_SETUPTOOLS_VERSIONS.get(venvname, tox_setuptools_version_from_env)
\* Variant: the environment variable wins over tox.ini.
ResolveVersion_envfirst(registry, venvname, from_env) ==
    IF from_env # None THEN from_env ELSE DictGet(registry, venvname, None)

\* Variant: .get(venvname) without a default.
ResolveVersion_nodefault(registry, venvname, from_env) ==
    DictGet(registry, venvname, None)

ResolveVersion(registry, venvname, from_env) ==
    DictGet(registry, venvname, from_env)

\* if setuptools_version:
\* Variant: "is not None" instead of truthiness, an empty or missing value
\* read as the empty str.
ShouldInstall_notnone(setuptools_version) == setuptools_version # None

ShouldInstall(setuptools_version) == Truthy(setuptools_version)

\* The body of the if: the print, then the call of venv._install.
\* Variant: venv._install is called before the print.
InstallEffects_swapped(venv, venvname, setuptools_version, action) ==
    LET package == get_setuptools_package_version(setuptools_version)
    IN  << [op |-> "install", venv |-> venv.name, packages |-> << package >>,
            extraopts |-> << "--upgrade" >>, action |-> action],
           [op |-> "print", venvname |-> venvname, package |-> package] >>

InstallEffects(venv, venvname, setuptools_version, action) ==
    LET package == get_setuptools_package_version(setuptools_version)
    IN  << [op |-> "print", venvname |-> venvname, package |-> package],
           [op |-> "install", venv |-> venv.name, packages |-> << package >>,
            extraopts |-> << "--upgrade" >>, action |-> action] >>

\* Variant: PER_ENV_SETUPTOOLS_VERSIONS.pop instead of .get.
tox_testenv_install_deps_pop(venv, action, os_environ, install_ok) ==
    /\ pc = "configured"
    /\ LET env == venv.os_environ
           from_env == VersionFromEnv(env, os_environ)
           venvname == ActionVenvName(action)
           setuptools_version ==
               ResolveVersion(PER_ENV_SETUPTOOLS_VERSIONS, venvname, from_env)
       IN  /\ call' = Some([venv |-> venv, action |-> action,
                            os_environ |-> os_environ])
           /\ fromEnv' = from_env
           /\ resolved' = setuptools_version
           /\ PER_ENV_SETUPTOOLS_VERSIONS' =
                  [k \in (DOMAIN PER_ENV_SETUPTOOLS_VERSIONS) \ {venvname} |->
                      PER_ENV_SETUPTOOLS_VERSIONS[k]]
           /\ IF ShouldInstall(setuptools_version)
                THEN /\ events' = InstallEffects(venv, venvname,
                                                 setuptools_version[1], action)
                     /\ raised' = ~install_ok
                ELSE /\ events' = << >>
                     /\ raised' = FALSE
    /\ UNCHANGED << envconfigs, pc, nArg, nOut, nOut2 >>

tox_testenv_install_deps(venv, action, os_environ, install_ok) ==
    /\ pc = "configured"
    /\ LET env == venv.os_environ
           from_env == VersionFromEnv(env, os_environ)
           venvname == ActionVenvName(action)
           setuptools_version ==
               ResolveVersion(PER_ENV_SETUPTOOLS_VERSIONS, venvname, from_env)
       IN  /\ call' = Some([venv |-> venv, action |-> action,
                            os_environ |-> os_environ])
           /\ fromEnv' = from_env
           /\ resolved' = setuptools_version
           /\ IF ShouldInstall(setuptools_version)
                THEN /\ events' = InstallEffects(venv, venvname,
                                                 setuptools_version[1], action)
                     /\ raised' = ~install_ok
                ELSE /\ events' = << >>
                     /\ raised' = FALSE
    /\ UNCHANGED << envconfigs, PER_ENV_SETUPTOOLS_VERSIONS, pc,
                    nArg, nOut, nOut2 >>

\* ------------------------------------------------------------------------
\* Specification of the two hooks
\* ------------------------------------------------------------------------
Init ==
    /\ envconfigs \in [Envs -> ConfigValues]
    /\ PER_ENV_SETUPTOOLS_VERSIONS = EmptyDict
    /\ pc = "start"
    /\ call = None
    /\ fromEnv = None
    /\ resolved = None
    /\ events = << >>
    /\ raised = FALSE
    /\ nArg = << >>
    /\ nOut = None
    /\ nOut2 = None

Next ==
    \/ \E order \in Orders : tox_configure(order)
    \/ \E venv \in Venvs, os_environ \in Environs(ProcStrings),
          install_ok \in BOOLEAN :
          \E action \in ActionsOf(venv.name) :
              tox_testenv_install_deps(venv, action, os_environ, install_ok)

Spec == Init /\ [][Next]_vars

\* ------------------------------------------------------------------------
\* Specification of get_setuptools_package_version alone
\* ------------------------------------------------------------------------
Normalize ==
    /\ pc = "normalize"
    /\ nOut = None
    /\ nOut' = Some(get_setuptools_package_version(nArg))
    /\ UNCHANGED << hookVars, pc, nArg, nOut2 >>

Renormalize ==
    /\ pc = "normalize"
    /\ nOut # None
    /\ nOut2 = None
    /\ nOut2' = Some(get_setuptools_package_version(nOut[1]))
    /\ UNCHANGED << hookVars, pc, nArg, nOut >>

InitNormalize ==
    /\ envconfigs = [e \in Envs |-> None]
    /\ PER_ENV_SETUPTOOLS_VERSIONS = EmptyDict
    /\ pc = "normalize"
    /\ call = None
    /\ fromEnv = None
    /\ resolved = None
    /\ events = << >>
    /\ raised = FALSE
    /\ nArg \in RawInputs
    /\ nOut = None
    /\ nOut2 = None

NextNormalize == Normalize \/ Renormalize

SpecNormalize == InitNormalize /\ [][NextNormalize]_vars

\* ------------------------------------------------------------------------
\* Properties
\* ------------------------------------------------------------------------
\* The last tox_testenv_install_deps invocation and the environment it was for.
LastCall == call[1]

LastEnv == LastCall.venv.name

\* What tox.ini declares for environment e, as a non-empty str.
Declared(e) == envconfigs[e] # None /\ envconfigs[e][1] # << >>

\* A mapping of environment variables yields a value of the variable.
Yields(environ) ==
    /\ TOX_SETUPTOOLS_VERSION_VAR \in DOMAIN environ
    /\ environ[TOX_SETUPTOOLS_VERSION_VAR] # << >>

\* The fallback of the last invocation: the environment-scoped value if the
\* key is there, else the process-level value, else None.
Fallback ==
    IF TOX_SETUPTOOLS_VERSION_VAR \in DOMAIN LastCall.venv.os_environ
      THEN Some(LastCall.venv.os_environ[TOX_SETUPTOOLS_VERSION_VAR])
      ELSE IF TOX_SETUPTOOLS_VERSION_VAR \in DOMAIN LastCall.os_environ
             THEN Some(LastCall.os_environ[TOX_SETUPTOOLS_VERSION_VAR])
             ELSE None

InstallRequests == {i \in DOMAIN events : events[i].op = "install"}

Reports == {i \in DOMAIN events : events[i].op = "print"}

\* The package lists of the install requests of the last invocation.
Requested == {events[i].packages : i \in InstallRequests}

\* v[i..j] is v without its leading and trailing whitespace.
IsStripOf(v, i, j) ==
    /\ i <= j + 1
    /\ \A k \in 1..(i - 1) : v[k] \in Whitespace
    /\ \A k \in (j + 1)..Len(v) : v[k] \in Whitespace
    /\ i <= j => (v[i] \notin Whitespace /\ v[j] \notin Whitespace)

\* C1: when tox.ini declares a non-empty setuptools_version x for an
\* environment, tox_testenv_install_deps for that environment resolves to x
\* and requests exactly get_setuptools_package_version(x), whatever the
\* environment-scoped and process-level TOX_SETUPTOOLS_VERSION are.
C1_RegistryWins ==
    (call # None /\ Declared(LastEnv)) =>
        /\ resolved = envconfigs[LastEnv]
        /\ Requested =
               {<< get_setuptools_package_version(envconfigs[LastEnv][1]) >>}

C1_Witness ==
    /\ call # None
    /\ Declared(LastEnv)
    /\ Truthy(Fallback)
    /\ Fallback # envconfigs[LastEnv]
    /\ Requested # {}

\* C2: when the environment has no entry in the dict (tox.ini has no value
\* or an empty one for it), tox_testenv_install_deps resolves to the
\* fallback, and a non-empty fallback f is requested as
\* get_setuptools_package_version(f).
C2_FallbackOnMissingKey ==
    (call # None /\ ~Declared(LastEnv)) =>
        /\ resolved = Fallback
        /\ Truthy(Fallback) =>
               Requested = {<< get_setuptools_package_version(Fallback[1]) >>}

C2_Witness ==
    /\ call # None
    /\ envconfigs[LastEnv] = Some(<< >>)
    /\ Truthy(Fallback)
    /\ resolved = Fallback
    /\ Requested # {}

\* C3: with no entry in the dict and no value of TOX_SETUPTOOLS_VERSION in
\* either mapping, tox_testenv_install_deps resolves to nothing, prints
\* nothing, never calls venv._install and raises nothing.
C3_NoValueNoOp ==
    (/\ call # None
     /\ LastEnv \notin DOMAIN PER_ENV_SETUPTOOLS_VERSIONS
     /\ ~Yields(LastCall.venv.os_environ)
     /\ ~Yields(LastCall.os_environ)) =>
        /\ ~Truthy(resolved)
        /\ (Fallback = None => resolved = None)
        /\ events = << >>
        /\ ~raised

C3_Witness ==
    /\ call # None
    /\ LastEnv \notin DOMAIN PER_ENV_SETUPTOOLS_VERSIONS
    /\ TOX_SETUPTOOLS_VERSION_VAR \in DOMAIN LastCall.venv.os_environ
    /\ ~Yields(LastCall.venv.os_environ)
    /\ ~Yields(LastCall.os_environ)
    /\ events = << >>

\* C4: the result of get_setuptools_package_version(v) is s, the lowercased
\* v without leading and trailing whitespace, when s starts with
\* "setuptools", and "setuptools==" followed by s otherwise.
C4_NormalizerResult ==
    nOut # None =>
        LET lowered == [i \in DOMAIN nArg |-> LowerChar(nArg[i])]
        IN  \E i \in 1..(Len(nArg) + 1), j \in 0..Len(nArg) :
                LET s == SubSeq(lowered, i, j)
                IN  /\ IsStripOf(lowered, i, j)
                    /\ nOut[1] = IF startswith(s, SETUPTOOLS)
                                   THEN s
                                   ELSE SETUPTOOLS \o << "=", "=" >> \o s

C4_Witness ==
    /\ nArg = << "\t", "S", "e", "t", "u", "p", "T", "o", "o", "l", "s",
                 "=", "A", " " >>
    /\ nOut = Some(<< "s", "e", "t", "u", "p", "t", "o", "o", "l", "s",
                      "=", "a" >>)

\* C5: the local tox_setuptools_version_from_env is the value of the
\* environment-scoped mapping when that mapping has the key
\* TOX_SETUPTOOLS_VERSION, and the process-level value (or None) only when
\* the key is missing from it.
C5_FallbackPrecedence ==
    call # None =>
        /\ TOX_SETUPTOOLS_VERSION_VAR \in DOMAIN LastCall.venv.os_environ =>
               fromEnv = Some(LastCall.venv.os_environ[TOX_SETUPTOOLS_VERSION_VAR])
        /\ TOX_SETUPTOOLS_VERSION_VAR \notin DOMAIN LastCall.venv.os_environ =>
               fromEnv = IF TOX_SETUPTOOLS_VERSION_VAR \in DOMAIN LastCall.os_environ
                           THEN Some(LastCall.os_environ[TOX_SETUPTOOLS_VERSION_VAR])
                           ELSE None

C5_Witness ==
    /\ call # None
    /\ Yields(LastCall.venv.os_environ)
    /\ Yields(LastCall.os_environ)
    /\ fromEnv # Some(LastCall.os_environ[TOX_SETUPTOOLS_VERSION_VAR])

\* C6: when tox_testenv_install_deps resolves a non-empty value r, it first
\* prints get_setuptools_package_version(r) with the environment name and
\* then makes exactly one venv._install call, on that environment, with
\* that one package, the --upgrade option and the action it was given.
C6_ReportThenInstall ==
    (call # None /\ Truthy(resolved)) =>
        LET package == get_setuptools_package_version(resolved[1])
        IN  /\ Cardinality(Reports) = 1
            /\ Cardinality(InstallRequests) = 1
            /\ \A i \in Reports, j \in InstallRequests :
                   /\ i < j
                   /\ events[i].venvname = LastEnv
                   /\ events[i].package = package
                   /\ events[j].venv = LastEnv
                   /\ events[j].packages = << package >>
                   /\ events[j].packages = << events[i].package >>
                   /\ events[j].extraopts = << "--upgrade" >>
                   /\ events[j].action = LastCall.action

C6_Witness ==
    /\ call # None
    /\ Truthy(resolved)
    /\ "name" \in DOMAIN LastCall.action
    /\ Len(events) = 2
    /\ raised

\* C7: applying get_setuptools_package_version to its own result gives that
\* result again.
C7_Idempotent == nOut2 # None => nOut2 = nOut

C7_Witness ==
    /\ nOut2 # None
    /\ ~startswith(strip(lower(nArg)), SETUPTOOLS)
    /\ strip(lower(nArg)) # << >>
    /\ nArg # lower(nArg)

\* C8: the dict has a key only for an environment whose setuptools_version
\* in tox.ini is a non-empty str, and the value is that str as written.
C8_RegistryInvariant ==
    \A e \in DOMAIN PER_ENV_SETUPTOOLS_VERSIONS :
        /\ e \in Envs
        /\ envconfigs[e] # None
        /\ envconfigs[e][1] # << >>
        /\ PER_ENV_SETUPTOOLS_VERSIONS[e] = envconfigs[e][1]
        /\ PER_ENV_SETUPTOOLS_VERSIONS[e] # << >>

C8_Witness ==
    /\ pc = "configured"
    /\ \E e \in DOMAIN PER_ENV_SETUPTOOLS_VERSIONS :
           PER_ENV_SETUPTOOLS_VERSIONS[e] #
               get_setuptools_package_version(PER_ENV_SETUPTOOLS_VERSIONS[e])
    /\ \E e \in Envs :
           envconfigs[e] = Some(<< >>) /\ e \notin DOMAIN PER_ENV_SETUPTOOLS_VERSIONS

\* C9: no tox_testenv_install_deps invocation changes the dict, whether it
\* does nothing, installs, or venv._install raises.
C9_InstallReadOnly ==
    [][pc = "configured" =>
          PER_ENV_SETUPTOOLS_VERSIONS' = PER_ENV_SETUPTOOLS_VERSIONS]_vars

C9_Witness ==
    /\ call # None
    /\ raised
    /\ LastEnv \in DOMAIN PER_ENV_SETUPTOOLS_VERSIONS
    /\ Cardinality(DOMAIN PER_ENV_SETUPTOOLS_VERSIONS) > 1

\* C10: the dict tox_configure leaves is the one every order of visiting the
\* environments gives, and the entry of an environment b, and what
\* tox_testenv_install_deps resolves for b, stay the same whatever tox.ini
\* declares for another environment a.
C10_OrderIndependent ==
    pc = "configured" =>
        /\ \A order \in Orders :
               ConfigureLoop(EmptyDict, order, envconfigs) =
                   PER_ENV_SETUPTOOLS_VERSIONS
        /\ \A order \in Orders, a \in Envs, v \in ConfigValues :
               LET other == ConfigureLoop(EmptyDict, order,
                                          [envconfigs EXCEPT ![a] = v])
               IN  \A b \in Envs \ {a} :
                       /\ DictGet(other, b, None) =
                              DictGet(PER_ENV_SETUPTOOLS_VERSIONS, b, None)
                       /\ (call # None /\ LastEnv = b) =>
                              resolved = DictGet(other, b, fromEnv)

C10_Witness ==
    /\ pc = "configured"
    /\ call # None
    /\ \E a \in Envs : ~Declared(a) /\ a # LastEnv
    /\ Declared(LastEnv)
    /\ ~raised

====
